---- MODULE Spec2Model ----
(***************************************************************************)
(* A model of the justic-was API gateway: the two route groups of          *)
(* app/video.py (v1) and app/video2.py (v2), with the object store         *)
(* (app/s3_client.py), the metadata store and operation log (app/ai.py),   *)
(* the Redis job queue, the temporary files of a request and its response. *)
(* A request runs its handler one external call at a time.  The handlers   *)
(* share nothing but the stores, and every store operation is one atomic   *)
(* call, so the requests are served one after the other.  SpecStore is the *)
(* metadata store alone, under any sequence of calls of its two writers.   *)
(***************************************************************************)
EXTENDS Integers, Sequences, FiniteSets, TLC

\* ------------------------------------------------------------------ bounds

\* Number of requests the server receives in one behaviour.
MaxReq == 3

\* ------------------------------------------------------- program constants

\* req.prompt[:50]
TitleLen == 50

\* ------------------------------------------------------------ input domains

Users == {"u1", "u2"}
UpstreamIds == {"abc"}
VideoKeys == {"abc", "xyz", "kie_0a1b2c3d"}
RandomHex == {"0a1b2c3d"}
None == "None"
\* the bodies the generation API answers with: data.get("id"), and whether
\* data.get("video_url") is there
UpstreamResponses ==
    {[id |-> i, video_url |-> u] : i \in UpstreamIds, u \in BOOLEAN}
        \cup {[id |-> None, video_url |-> FALSE]}
NoFile == <<>>
NoKey == <<>>
ShortPrompt == <<"a", " ", "c", "a", "t">>
LongPrompt == [i \in 1..(TitleLen + 1) |-> "x"]
Prompts == {ShortPrompt, LongPrompt}

VARIABLES
    KIE_API_KEY,  \* whether the environment sets KIE_API_KEY
    objects,      \* keys of the objects in the S3 bucket
    final_videos, \* rows of table ai_final_videos
    logs,         \* rows the current request appended to ai_operation_logs
    queue,        \* the Redis list REDIS_QUEUE, head first
    files,        \* temporary files that exist on the filesystem
    last_insert,  \* per video_key, the latest committed insert_final_video
    served,       \* number of requests received so far: the time now() reads
    req           \* the locals of the current request's handler, and its position

vars == <<KIE_API_KEY, objects, final_videos, last_insert, logs, queue, files,
          served, req>>

\* ------------------------------------------------------------- s3_client.py

\* upload_video / get_video_stream: f"{user_id}/{task_id}.mp4" or
\* f"{user_id}/{task_id}_processed.mp4", as a sequence of text pieces.
VideoKey(user_id, task_id, processed) ==
    <<user_id, "/", task_id>> \o
        (IF processed THEN <<"_processed", ".mp4">> ELSE <<".mp4">>)

\* upload_thumbnail / get_thumbnail_stream: f"{user_id}/{task_id}.jpg"
ThumbKey(user_id, task_id) == <<user_id, "/", task_id, ".jpg">>

\* ------------------------------------------------------------------- ai.py

Min(a, b) == IF a < b THEN a ELSE b

\* req.prompt[:50]
Title(prompt) == SubSeq(prompt, 1, Min(TitleLen, Len(prompt)))

RowsOf(rows, video_key) == {row \in rows : row.video_key = video_key}

NewRow(video_key, user_id, title, description, now) ==
    [video_key |-> video_key, user_id |-> user_id, title |-> title,
     description |-> description, youtube_uploaded |-> FALSE,
     youtube_video_id |-> None, selected_at |-> now, youtube_uploaded_at |-> 0]

\* the upsert with ON CONFLICT (video_key) DO NOTHING
UpsertKeepOld(rows, video_key, user_id, title, description, now) ==
    IF RowsOf(rows, video_key) = {}
    THEN rows \cup {NewRow(video_key, user_id, title, description, now)}
    ELSE rows

\* the upsert with DO UPDATE SET user_id = EXCLUDED.user_id as well
UpsertTakeOver(rows, video_key, user_id, title, description, now) ==
    IF RowsOf(rows, video_key) = {}
    THEN rows \cup {NewRow(video_key, user_id, title, description, now)}
    ELSE {IF row.video_key = video_key
          THEN [row EXCEPT !.user_id = user_id, !.title = title,
                           !.description = description]
          ELSE row : row \in rows}

\* INSERT ... ON CONFLICT (video_key) DO UPDATE SET title, description
Upsert(rows, video_key, user_id, title, description, now) ==
    IF RowsOf(rows, video_key) = {}
    THEN rows \cup {NewRow(video_key, user_id, title, description, now)}
    ELSE {IF row.video_key = video_key
          THEN [row EXCEPT !.title = title, !.description = description]
          ELSE row : row \in rows}

\* UPDATE ai_final_videos SET youtube_uploaded = TRUE, youtube_video_id = ...,
\* youtube_uploaded_at = now() WHERE video_key = ...
MarkUploaded(rows, video_key, youtube_video_id, now) ==
    {IF row.video_key = video_key
     THEN [row EXCEPT !.youtube_uploaded = TRUE,
                      !.youtube_video_id = youtube_video_id,
                      !.youtube_uploaded_at = now]
     ELSE row : row \in rows}

\* the row insert_operation_log inserts
LogRow(user_id, log_type, status, video_key, message) ==
    [user_id |-> user_id, log_type |-> log_type, status |-> status,
     video_key |-> video_key, message |-> message]

\* How a call of insert_operation_log or mark_youtube_uploaded ends: the
\* statement commits, fails with an SQLAlchemyError (rolled back, printed and
\* swallowed), or raises something else (a connection error of the driver,
\* a cancelled task), which leaves the function.
DbOutcomes == {"commit", "sqlalchemy_error", "raise"}

\* ------------------------------------------------------------ video.py, v2

\* job_payload of generate_video (video.py)
JobPayloadV1(user_id, task_id) ==
    [input_key |-> <<user_id, "/", task_id, "/", ".mp4">>,
     output_key |-> <<user_id, "/", task_id, "_processed", ".mp4">>,
     variant |-> "v1"]

\* job_payload of generate_video_v2 (video2.py)
JobPayloadV2(user_id, task_id) ==
    [input_key |-> <<user_id, "/", task_id, ".mp4">>,
     output_key |-> <<user_id, "/", task_id, "_processed", ".mp4">>,
     variant |-> "v2"]

JobPayload(variant, user_id, task_id) ==
    IF variant = "v1" THEN JobPayloadV1(user_id, task_id)
    ELSE JobPayloadV2(user_id, task_id)

\* task_id = data.get("id") or f"kie_{os.urandom(4).hex()}" (v2: "kie2_")
TaskId(variant, id, hex) ==
    IF id # None THEN id
    ELSE IF variant = "v1" THEN "kie_" \o hex ELSE "kie2_" \o hex

GenLogType(variant) ==
    IF variant = "v1" THEN "VIDEO_GENERATE" ELSE "VIDEO_GENERATE_V2"

PubLogType(variant) ==
    IF variant = "v1" THEN "YOUTUBE_UPLOAD" ELSE "YOUTUBE_UPLOAD_V2"

\* tempfile.NamedTemporaryFile(delete=False, suffix=...).name: a fresh name
TmpName(n, suffix) == <<"tmp", n, suffix>>

\* a finally block that forgets the thumbnail
RemoveVideoOnly(fs, tmp_video, tmp_thumb) == fs \ {tmp_video}

\* the finally block: os.remove of tmp_video and, if bound, of tmp_thumb
RemoveTemp(fs, tmp_video, tmp_thumb) == fs \ {tmp_video, tmp_thumb}

HttpError(code, detail) == [code |-> code, body |-> detail]

\* an exception that leaves the handler: the framework answers 500
Unhandled == HttpError(500, "Internal Server Error")

\* no response yet
NoResponse == [code |-> 0, body |-> None]

IdleReq ==
    [pc |-> "idle", route |-> None, variant |-> None, user_id |-> None,
     prompt |-> <<>>, video_key |-> None, task_id |-> None,
     tmp_video |-> NoFile, tmp_thumb |-> NoFile, stream |-> NoKey,
     fetched |-> <<>>, youtube_id |-> None, executed |-> FALSE,
     exc |-> None, pending |-> NoResponse, response |-> NoResponse,
     put |-> {}, upserted |-> FALSE, pushed |-> <<>>]

Init ==
    /\ KIE_API_KEY \in BOOLEAN
    /\ objects = {}
    /\ final_videos = {}
    /\ last_insert = <<>>
    /\ logs = <<>>
    /\ queue = <<>>
    /\ files = {}
    /\ served = 0
    /\ req = IdleReq

\* A request is received when the one before it has been answered.
CanStart ==
    /\ req.pc \in {"idle", "done"}
    /\ served < MaxReq

\* the record of the committed inserts: of each video_key the latest one,
\* and the title of the one before it
Committed(last, video_key, title, description) ==
    [k \in DOMAIN last \cup {video_key} |->
        IF k = video_key
        THEN [title |-> title, description |-> description,
              previous |-> IF k \in DOMAIN last THEN last[k].title ELSE <<>>]
        ELSE last[k]]

\* An exception raised inside the try block: control passes to the except block.
Raise(message) == [req EXCEPT !.pc = "except", !.exc = message]

\* ---------------------------------------------------------- generate_video

\* POST /generate up to the upstream call: user_id from the token, the
\* KIE_API_KEY check.
GenStart ==
    /\ CanStart
    /\ served' = served + 1
    /\ logs' = <<>>
    /\ \E v \in {"v1", "v2"}, u \in Users, p \in Prompts :
         LET s == [IdleReq EXCEPT !.route = "generate", !.variant = v,
                                  !.user_id = u, !.prompt = p]
         IN  IF KIE_API_KEY
             THEN req' = [s EXCEPT !.pc = "call_kie"]
             ELSE req' = [s EXCEPT !.pc = "done",
                            !.response = HttpError(500, "KIE_API_KEY missing")]
    /\ UNCHANGED <<KIE_API_KEY, objects, final_videos, last_insert, queue, files>>

\* The upstream call, the parse of its response and the creation of tmp_video.
GenCallKie ==
    /\ req.pc = "call_kie"
    /\ \E ok \in BOOLEAN, data \in UpstreamResponses, hex \in RandomHex :
         IF ~ok
         THEN /\ req' = [req EXCEPT !.pc = "done",
                           !.response = HttpError(502, "KIE Generation failed")]
              /\ files' = files
         ELSE IF ~data.video_url
         THEN /\ req' = [req EXCEPT !.pc = "done",
                           !.task_id = TaskId(req.variant, data.id, hex),
                           !.response = HttpError(502, "KIE did not return a video URL")]
              /\ files' = files
         ELSE /\ req' = [req EXCEPT !.pc = "download",
                           !.task_id = TaskId(req.variant, data.id, hex),
                           !.tmp_video = TmpName(served, ".mp4")]
              /\ files' = files \cup {TmpName(served, ".mp4")}
    /\ UNCHANGED <<KIE_API_KEY, objects, final_videos, last_insert, logs, queue, served>>

\* client.get(video_url), status check, write to tmp_video
GenDownload ==
    /\ req.pc = "download"
    /\ \E ok \in BOOLEAN :
         IF ok THEN req' = [req EXCEPT !.pc = "thumbnail"]
         ELSE req' = Raise("Failed to download video")
    /\ UNCHANGED <<KIE_API_KEY, objects, final_videos, last_insert, logs, queue,
                   files, served>>

\* tmp_thumb is created, then ffmpeg runs with check=True.
GenThumbnail ==
    /\ req.pc = "thumbnail"
    /\ files' = files \cup {TmpName(served, ".jpg")}
    /\ \E ok \in BOOLEAN :
         IF ok THEN req' = [req EXCEPT !.pc = "upload_video",
                              !.tmp_thumb = TmpName(served, ".jpg")]
         ELSE req' = [Raise("ffmpeg returned non-zero exit status")
                        EXCEPT !.tmp_thumb = TmpName(served, ".jpg")]
    /\ UNCHANGED <<KIE_API_KEY, objects, final_videos, last_insert, logs, queue, served>>

\* upload_video(user_id, task_id, tmp_video, processed=False)
GenUploadVideo ==
    /\ req.pc = "upload_video"
    /\ \E ok \in BOOLEAN :
         IF ok
         THEN LET key == VideoKey(req.user_id, req.task_id, FALSE)
              IN  /\ objects' = objects \cup {key}
                  /\ req' = [req EXCEPT !.pc = "upload_thumbnail",
                               !.put = @ \cup {key}]
         ELSE /\ objects' = objects
              /\ req' = Raise("S3 upload failed")
    /\ UNCHANGED <<KIE_API_KEY, final_videos, last_insert, logs, queue, files, served>>

\* upload_thumbnail(user_id, task_id, tmp_thumb)
GenUploadThumbnail ==
    /\ req.pc = "upload_thumbnail"
    /\ \E ok \in BOOLEAN :
         IF ok
         THEN LET key == ThumbKey(req.user_id, req.task_id)
              IN  /\ objects' = objects \cup {key}
                  /\ req' = [req EXCEPT !.pc = "insert_final_video",
                               !.put = @ \cup {key}]
         ELSE /\ objects' = objects
              /\ req' = Raise("S3 thumbnail upload failed")
    /\ UNCHANGED <<KIE_API_KEY, final_videos, last_insert, logs, queue, files, served>>

\* a metadata upsert that warns of its failure and lets the request go on,
\* as mark_youtube_uploaded does
GenInsertFinalVideoSwallow ==
    /\ req.pc = "insert_final_video"
    /\ \E ok \in BOOLEAN :
         IF ok
         THEN /\ final_videos' = Upsert(final_videos, req.task_id,
                     req.user_id, Title(req.prompt), req.prompt, served)
              /\ last_insert' = Committed(last_insert, req.task_id,
                                          Title(req.prompt), req.prompt)
              /\ req' = [req EXCEPT !.pc = "lpush", !.upserted = TRUE]
         ELSE /\ UNCHANGED <<final_videos, last_insert>>
              /\ req' = [req EXCEPT !.pc = "lpush"]
    /\ UNCHANGED <<KIE_API_KEY, objects, logs, queue, files, served>>

\* await insert_final_video(...): commits, or rolls back and raises RuntimeError
GenInsertFinalVideo ==
    /\ req.pc = "insert_final_video"
    /\ \E ok \in BOOLEAN :
         IF ok
         THEN /\ final_videos' = Upsert(final_videos, req.task_id,
                     req.user_id, Title(req.prompt), req.prompt, served)
              /\ last_insert' = Committed(last_insert, req.task_id,
                                          Title(req.prompt), req.prompt)
              /\ req' = [req EXCEPT !.pc = "lpush", !.upserted = TRUE]
         ELSE /\ UNCHANGED <<final_videos, last_insert>>
              /\ req' = Raise("[ai] insert_final_video failed")
    /\ UNCHANGED <<KIE_API_KEY, objects, logs, queue, files, served>>

\* redis_client.lpush(REDIS_QUEUE, json.dumps(job_payload))
GenLpush ==
    /\ req.pc = "lpush"
    /\ \E ok \in BOOLEAN :
         IF ok
         THEN LET job == JobPayload(req.variant, req.user_id, req.task_id)
              IN  /\ queue' = <<job>> \o queue
                  /\ req' = [req EXCEPT !.pc = "log_success",
                               !.pushed = Append(@, job)]
         ELSE /\ queue' = queue
              /\ req' = Raise("redis connection error")
    /\ UNCHANGED <<KIE_API_KEY, objects, final_videos, last_insert, logs, files, served>>

\* await insert_operation_log(status="SUCCESS", video_key=task_id), then
\* return {"task_id": task_id, "status": "queued"}
GenLogSuccess ==
    /\ req.pc = "log_success"
    /\ req.route = "generate"
    /\ \E o \in DbOutcomes :
         /\ logs' = IF o = "commit"
                    THEN Append(logs, LogRow(req.user_id, GenLogType(req.variant),
                                             "SUCCESS", req.task_id, "queued"))
                    ELSE logs
         /\ req' = IF o = "raise" THEN Raise("operation log raised")
                   ELSE [req EXCEPT !.pc = "finally",
                           !.pending = [code |-> 200,
                                        body |-> [task_id |-> req.task_id,
                                                  status |-> "queued"]]]
    /\ UNCHANGED <<KIE_API_KEY, objects, final_videos, last_insert, queue, files, served>>

\* except Exception as e: insert_operation_log(status="FAIL", message=str(e))
\* with no video_key, then raise HTTPException(500, ...)
GenExcept ==
    /\ req.pc = "except"
    /\ req.route = "generate"
    /\ \E o \in DbOutcomes :
         /\ logs' = IF o = "commit"
                    THEN Append(logs, LogRow(req.user_id, GenLogType(req.variant),
                                             "FAIL", None, req.exc))
                    ELSE logs
         /\ req' = [req EXCEPT !.pc = "finally",
                      !.pending = IF o = "raise" THEN Unhandled
                                  ELSE HttpError(500, "Processing failed")]
    /\ UNCHANGED <<KIE_API_KEY, objects, final_videos, last_insert, queue, files, served>>

\* ------------------------------------------------------ upload_to_youtube

\* the video_key values a publish request may name
PublishKeys == UpstreamIds

\* POST /youtube/upload up to the try block: tmp_video is created.
PubStart ==
    /\ CanStart
    /\ served' = served + 1
    /\ logs' = <<>>
    /\ \E v \in {"v1", "v2"}, u \in Users, k \in PublishKeys :
         req' = [IdleReq EXCEPT !.route = "publish", !.variant = v,
                   !.user_id = u, !.video_key = k, !.task_id = k,
                   !.tmp_video = TmpName(served + 1, ".mp4"),
                   !.pc = "fetch_processed"]
    /\ files' = files \cup {TmpName(served + 1, ".mp4")}
    /\ UNCHANGED <<KIE_API_KEY, objects, final_videos, last_insert, queue>>

\* get_video_stream: s3_client.get_object raises when the key is absent, and
\* may raise for any other reason.
CanFetch(key, ok) == ok /\ key \in objects

\* a fetch of the processed object that is followed by the fetch of the
\* unprocessed one whether it raised or not
PubFetchBoth ==
    /\ req.pc = "fetch_processed"
    /\ \E ok \in BOOLEAN :
         LET key == VideoKey(req.user_id, req.task_id, TRUE)
         IN  req' = [req EXCEPT !.pc = "fetch_original",
                       !.stream = IF CanFetch(key, ok) THEN key ELSE NoKey,
                       !.fetched =
                         Append(@, [processed |-> TRUE, ok |-> CanFetch(key, ok)])]
    /\ UNCHANGED <<KIE_API_KEY, objects, final_videos, last_insert, logs, queue,
                   files, served>>

\* stream = get_video_stream(user_id, task_id, processed=True)
PubFetchProcessed ==
    /\ req.pc = "fetch_processed"
    /\ \E ok \in BOOLEAN :
         LET key == VideoKey(req.user_id, req.task_id, TRUE)
             s == [req EXCEPT !.fetched =
                     Append(@, [processed |-> TRUE, ok |-> CanFetch(key, ok)])]
         IN  IF CanFetch(key, ok)
             THEN req' = [s EXCEPT !.stream = key, !.pc = "youtube_service"]
             ELSE req' = [s EXCEPT !.pc = "fetch_original"]
    /\ UNCHANGED <<KIE_API_KEY, objects, final_videos, last_insert, logs, queue,
                   files, served>>

\* except: stream = get_video_stream(user_id, task_id, processed=False)
PubFetchOriginal ==
    /\ req.pc = "fetch_original"
    /\ \E ok \in BOOLEAN :
         LET key == VideoKey(req.user_id, req.task_id, FALSE)
             s == [req EXCEPT !.fetched =
                     Append(@, [processed |-> FALSE, ok |-> CanFetch(key, ok)])]
         IN  IF CanFetch(key, ok)
             THEN req' = [s EXCEPT !.stream = key, !.pc = "youtube_service"]
             ELSE req' = [s EXCEPT !.pc = "except", !.exc = "S3 get_object failed"]
    /\ UNCHANGED <<KIE_API_KEY, objects, final_videos, last_insert, logs, queue,
                   files, served>>

\* the stream is written to tmp_video; youtube = get_youtube_service(user_id)
PubYoutubeService ==
    /\ req.pc = "youtube_service"
    /\ \E ok \in BOOLEAN :
         IF ok THEN req' = [req EXCEPT !.pc = "execute"]
         ELSE req' = Raise("no google credential")
    /\ UNCHANGED <<KIE_API_KEY, objects, final_videos, last_insert, logs, queue,
                   files, served>>

\* the platform assigns every upload an identifier of its own
YoutubeId(n) == "yt" \o ToString(n)

\* mark_youtube_uploaded takes keyword-only parameters: video.py calls it with
\* keywords, video2.py with two positional arguments, which raises TypeError
\* before the function runs.
MarkCallRaises(variant) == variant = "v2"

\* response = request.execute(); youtube_id = response.get("id");
\* if youtube_id: the call of mark_youtube_uploaded
PubExecute ==
    /\ req.pc = "execute"
    /\ \E ok \in BOOLEAN, id \in {YoutubeId(served), None} :
         LET s == [req EXCEPT !.executed = TRUE, !.youtube_id = id]
         IN  IF ~ok THEN req' = Raise("youtube insert failed")
             ELSE IF id = None THEN req' = [s EXCEPT !.pc = "log_success"]
             ELSE IF MarkCallRaises(req.variant)
             THEN req' = [s EXCEPT !.pc = "except",
                            !.exc = "TypeError: takes 0 positional arguments"]
             ELSE req' = [s EXCEPT !.pc = "mark"]
    /\ UNCHANGED <<KIE_API_KEY, objects, final_videos, last_insert, logs, queue,
                   files, served>>

\* await mark_youtube_uploaded(video_key=task_id, youtube_video_id=youtube_id)
PubMark ==
    /\ req.pc = "mark"
    /\ \E o \in DbOutcomes :
         /\ final_videos' = IF o = "commit"
                            THEN MarkUploaded(final_videos, req.task_id,
                                              req.youtube_id, served)
                            ELSE final_videos
         /\ req' = IF o = "raise" THEN Raise("mark_youtube_uploaded raised")
                   ELSE [req EXCEPT !.pc = "log_success"]
    /\ UNCHANGED <<KIE_API_KEY, objects, last_insert, logs, queue, files, served>>

\* status of the log row after the platform call: video.py writes
\* "SUCCESS" if youtube_id else "UNKNOWN", video2.py always "SUCCESS"
PubStatus(variant, youtube_id) ==
    IF variant = "v1" /\ youtube_id = None THEN "UNKNOWN" ELSE "SUCCESS"

\* await insert_operation_log(...), then
\* return {"status": "UPLOADED", "youtube_video_id": youtube_id}
PubLogSuccess ==
    /\ req.pc = "log_success"
    /\ req.route = "publish"
    /\ \E o \in DbOutcomes :
         /\ logs' = IF o = "commit"
                    THEN Append(logs, LogRow(req.user_id, PubLogType(req.variant),
                                   PubStatus(req.variant, req.youtube_id),
                                   req.task_id, "YouTube upload finished"))
                    ELSE logs
         /\ req' = IF o = "raise" THEN Raise("operation log raised")
                   ELSE [req EXCEPT !.pc = "finally",
                           !.pending = [code |-> 200,
                                        body |-> [status |-> "UPLOADED",
                                                  youtube_video_id |-> req.youtube_id]]]
    /\ UNCHANGED <<KIE_API_KEY, objects, final_videos, last_insert, queue, files, served>>

\* an except block that answers as the stream endpoints do
PubErrorNotFound(detail) == HttpError(404, detail)

\* the response of the except block of the publish handlers:
\* HTTPException(500, ...)
PubError(detail) == HttpError(500, detail)

\* except Exception as e: insert_operation_log(status="FAIL",
\* video_key=task_id, ...), then raise HTTPException(500, ...)
PubExcept ==
    /\ req.pc = "except"
    /\ req.route = "publish"
    /\ \E o \in DbOutcomes :
         /\ logs' = IF o = "commit"
                    THEN Append(logs, LogRow(req.user_id, PubLogType(req.variant),
                                             "FAIL", req.task_id, req.exc))
                    ELSE logs
         /\ req' = [req EXCEPT !.pc = "finally",
                      !.pending = IF o = "raise" THEN Unhandled
                                  ELSE PubError("YouTube upload failed")]
    /\ UNCHANGED <<KIE_API_KEY, objects, final_videos, last_insert, queue, files, served>>

\* finally: the temporary files are removed, and the response leaves.
Finally ==
    /\ req.pc = "finally"
    /\ files' = RemoveTemp(files, req.tmp_video, req.tmp_thumb)
    /\ req' = [req EXCEPT !.pc = "done", !.response = req.pending]
    /\ UNCHANGED <<KIE_API_KEY, objects, final_videos, last_insert, logs, queue, served>>

\* ------------------------------------------------------------- the worker

\* The external worker takes the oldest job off the list and, when the
\* object named by input_key exists, stores the processed video under
\* output_key.  Like a request, it takes its turn between two requests.
Worker ==
    /\ req.pc \in {"idle", "done"}
    /\ queue # <<>>
    /\ LET job == queue[Len(queue)]
       IN  /\ queue' = SubSeq(queue, 1, Len(queue) - 1)
           /\ objects' = IF job.input_key \in objects
                         THEN objects \cup {job.output_key}
                         ELSE objects
    /\ UNCHANGED <<KIE_API_KEY, final_videos, last_insert, logs, files, served, req>>

\* ------------------------------------------- the metadata store on its own

\* One call of insert_final_video, by any caller with any arguments: the
\* statement and its commit are one transaction, so concurrent calls take
\* effect one after the other, in the order of their commits.
InsertFinalVideoCall ==
    /\ req.pc = "idle"
    /\ served < MaxReq
    /\ served' = served + 1
    /\ \E k \in VideoKeys, u \in Users, p \in Prompts, ok \in BOOLEAN :
         IF ok
         THEN /\ final_videos' = Upsert(final_videos, k, u, Title(p), p, served + 1)
              /\ last_insert' = Committed(last_insert, k, Title(p), p)
         ELSE UNCHANGED <<final_videos, last_insert>>
    /\ UNCHANGED <<KIE_API_KEY, objects, logs, queue, files, req>>

\* One call of mark_youtube_uploaded, by any caller.
MarkYoutubeUploadedCall ==
    /\ req.pc = "idle"
    /\ served < MaxReq
    /\ served' = served + 1
    /\ \E k \in VideoKeys, o \in DbOutcomes :
         final_videos' = IF o = "commit"
                         THEN MarkUploaded(final_videos, k, YoutubeId(served + 1),
                                           served + 1)
                         ELSE final_videos
    /\ UNCHANGED <<KIE_API_KEY, objects, last_insert, logs, queue, files, req>>

NextStore ==
    \/ InsertFinalVideoCall
    \/ MarkYoutubeUploadedCall

SpecStore == Init /\ [][NextStore]_vars

Next ==
    \/ GenStart
    \/ GenCallKie
    \/ GenDownload
    \/ GenThumbnail
    \/ GenUploadVideo
    \/ GenUploadThumbnail
    \/ GenInsertFinalVideo
    \/ GenLpush
    \/ GenLogSuccess
    \/ GenExcept
    \/ PubStart
    \/ PubFetchProcessed
    \/ PubFetchOriginal
    \/ PubYoutubeService
    \/ PubExecute
    \/ PubMark
    \/ PubLogSuccess
    \/ PubExcept
    \/ Finally
    \/ Worker

Spec == Init /\ [][Next]_vars

\* ------------------------------------------------------------------ list

\* A key and a name are sequences of text pieces. No piece is the beginning
\* of another one, so comparing two names piece by piece, the pieces by
\* their first differing character, is comparing the strings.
Rank(piece) ==
    CASE piece = ".jpg" -> 1
      [] piece = ".mp4" -> 2
      [] piece = "/" -> 3
      [] piece = "_processed" -> 4
      [] piece = "abc" -> 5
      [] piece = "u1" -> 6
      [] piece = "u2" -> 7

\* a < b on strings
RECURSIVE Less(_, _)
Less(a, b) ==
    IF b = <<>> THEN FALSE
    ELSE IF a = <<>> THEN TRUE
    ELSE IF Head(a) = Head(b) THEN Less(Tail(a), Tail(b))
    ELSE Rank(Head(a)) < Rank(Head(b))

\* the identifiers the upstream service may give: "abc" and "abc.mp4"
ListTaskIds == {<<"abc">>, <<"abc", ".mp4">>}

\* what follows the task_id in the keys of upload_video (raw and processed)
\* and of upload_thumbnail
Suffixes == {<<".mp4">>, <<"_processed", ".mp4">>, <<".jpg">>}

\* key = f"{user_id}/{filename}"
ListKey(user_id, task_id, suffix) == <<user_id, "/">> \o task_id \o suffix

\* the keys the bucket may hold
ListKeys ==
    {ListKey(u, t, x) : u \in Users, t \in ListTaskIds, x \in Suffixes}

\* prefix = f"{user_id}/"
Prefix(user_id) == <<user_id, "/">>

\* list_objects_v2(Bucket, Prefix=prefix): the keys that begin with prefix
StartsWith(key, prefix) ==
    /\ Len(key) >= Len(prefix)
    /\ SubSeq(key, 1, Len(prefix)) = prefix

\* response['Contents'], in the ascending key order the store lists in
RECURSIVE Contents(_)
Contents(keys) ==
    IF keys = {} THEN <<>>
    ELSE LET first == CHOOSE k \in keys : \A o \in keys \ {k} : Less(k, o)
         IN  <<first>> \o Contents(keys \ {first})

\* key.split("/")[-1]
Filename(key) ==
    LET slashes == {i \in 1..Len(key) : key[i] = "/"}
        last == IF slashes = {} THEN 0
                ELSE CHOOSE i \in slashes : \A j \in slashes : j <= i
    IN  SubSeq(key, last + 1, Len(key))

\* filename.endswith(".mp4")
EndsWithMp4(filename) ==
    /\ filename # <<>>
    /\ filename[Len(filename)] = ".mp4"

\* filename.replace(".mp4", ""): every occurrence is removed
RECURSIVE Replace(_)
Replace(filename) ==
    IF filename = <<>> THEN <<>>
    ELSE (IF Head(filename) = ".mp4" THEN <<>> ELSE <<Head(filename)>>)
         \o Replace(Tail(filename))

\* the loop over response['Contents'] that appends to results
RECURSIVE Results(_)
Results(contents) ==
    IF contents = <<>> THEN <<>>
    ELSE (IF EndsWithMp4(Filename(Head(contents)))
          THEN <<Replace(Filename(Head(contents)))>>
          ELSE <<>>)
         \o Results(Tail(contents))

\* one name put at its place in a descending sequence
RECURSIVE Insert(_, _)
Insert(name, sorted) ==
    IF sorted = <<>> THEN <<name>>
    ELSE IF Less(name, Head(sorted))
         THEN <<Head(sorted)>> \o Insert(name, Tail(sorted))
         ELSE <<name>> \o sorted

\* sorted(results, reverse=True)
RECURSIVE SortedReverse(_)
SortedReverse(results) ==
    IF results = <<>> THEN <<>>
    ELSE Insert(Head(results), SortedReverse(Tail(results)))

\* list_user_videos(user_id); a ClientError of the store is answered with []
ListUserVideos(store, user_id, ok) ==
    LET listed == {k \in store : StartsWith(k, Prefix(user_id))}
    IN  IF ~ok \/ listed = {} THEN <<>>
        ELSE SortedReverse(Results(Contents(listed)))

\* the bucket holds any of the keys when the service starts
InitList ==
    /\ KIE_API_KEY \in BOOLEAN
    /\ objects \in SUBSET ListKeys
    /\ final_videos = {}
    /\ last_insert = <<>>
    /\ logs = <<>>
    /\ queue = <<>>
    /\ files = {}
    /\ served = 0
    /\ req = IdleReq

\* GET /my-videos: return {"videos": list_user_videos(user_id)}
GetMyVideos ==
    /\ req.pc \in {"idle", "done"}
    /\ \E v \in {"v1", "v2"}, u \in Users, ok \in BOOLEAN :
         req' = [IdleReq EXCEPT
                   !.pc = "done", !.route = "list", !.variant = v,
                   !.user_id = u,
                   !.exc = IF ok THEN None ELSE "ClientError",
                   !.response = [code |-> 200,
                                 body |-> [videos |->
                                             ListUserVideos(objects, u, ok)]]]
    /\ UNCHANGED <<KIE_API_KEY, objects, final_videos, last_insert, logs, queue,
                   files, served>>

NextList == GetMyVideos

SpecList == InitList /\ [][NextList]_vars

\* ------------------------------------------------------------------ claims

Done == req.pc = "done"
Failed == Done /\ req.response.code # 200
Succeeded == Done /\ req.response.code = 200
Statuses == {"SUCCESS", "FAIL", "UNKNOWN"}
LogIndexes == 1..Len(logs)
FailRows == {i \in LogIndexes : logs[i].status = "FAIL"}

\* C1: every generation attempt and every publish attempt (a request that
\* got as far as its first external call) has appended exactly one
\* operation-log row when it completes, with status success, fail or
\* unknown; a generation attempt that ends at the upstream call or for want
\* of a video_url (the 502 responses) has appended exactly one row, with
\* status fail.
C1_OneLogPerAttempt ==
    (Done /\ req.response.body # "KIE_API_KEY missing") =>
        /\ Len(logs) = 1
        /\ logs[1].status \in Statuses
        /\ (req.route = "generate" /\ req.response.code = 502) =>
               logs[1].status = "FAIL"

\* C2: when a generation request fails after its task_id was assigned, the
\* fail row it appended has video_key equal to that task_id.
C2_FailLogHasVideoKey ==
    (Failed /\ req.route = "generate" /\ req.task_id # None) =>
        \A i \in FailRows : logs[i].video_key = req.task_id

\* C3: a generation request that ends with an error response has left no
\* object in the object store, no row written or updated in the metadata
\* store and no job on the queue.
C3_FailedGenerationLeavesNothing ==
    (Failed /\ req.route = "generate") =>
        /\ req.put \cap objects = {}
        /\ ~req.upserted
        /\ req.pushed = <<>>

\* C4: a successful generation request by user U with upstream id T pushed
\* one job with input_key U/T.mp4 (the key it uploaded the video under),
\* output_key U/T_processed.mp4 and the variant of its route group; it stored
\* exactly U/T.mp4 and U/T.jpg, the metadata store has a row with video_key T
\* and the response is {task_id: T, status: queued}.
C4_SuccessfulGeneration ==
    (Succeeded /\ req.route = "generate") =>
        LET U == req.user_id
            T == req.task_id
        IN  /\ req.pushed = <<[input_key |-> <<U, "/", T, ".mp4">>,
                               output_key |-> <<U, "/", T, "_processed", ".mp4">>,
                               variant |-> req.variant]>>
            /\ req.pushed[1].input_key \in req.put
            /\ req.put = {<<U, "/", T, ".mp4">>, <<U, "/", T, ".jpg">>}
            /\ req.put \subseteq objects
            /\ RowsOf(final_videos, T) # {}
            /\ req.response.body = [task_id |-> T, status |-> "queued"]

\* C5: in both variants, a publish request whose platform call returned an
\* identifier ends with the response {status: UPLOADED, youtube_video_id:
\* that identifier}, whatever happens in mark_youtube_uploaded and
\* insert_operation_log.
C5_PublishedMeansUploadedResponse ==
    (Done /\ req.route = "publish" /\ req.executed /\ req.youtube_id # None) =>
        /\ req.response.code = 200
        /\ req.response.body = [status |-> "UPLOADED",
                                youtube_video_id |-> req.youtube_id]

\* C6: once a generation or publish request has completed, on whatever path,
\* none of the temporary files it created exists.
C6_TempFilesRemoved ==
    Done => /\ req.tmp_video \notin files
            /\ req.tmp_thumb \notin files
            /\ files = {}

\* a generation request completed after the failure log itself raised, with
\* both temporary files created
C6_Witness ==
    /\ Done
    /\ req.route = "generate"
    /\ req.tmp_video # NoFile
    /\ req.tmp_thumb # NoFile
    /\ req.exc # None
    /\ req.response = Unhandled

\* C7: after any sequence of insert_final_video calls the metadata store
\* holds exactly one row for each video_key inserted, no other row, and the
\* row's title and description are those of the latest committed insert of
\* that key.
C7_UpsertOneRowLatestTitle ==
    /\ \A row \in final_videos : row.video_key \in DOMAIN last_insert
    /\ \A k \in DOMAIN last_insert :
          /\ Cardinality(RowsOf(final_videos, k)) = 1
          /\ \A row \in RowsOf(final_videos, k) :
                /\ row.title = last_insert[k].title
                /\ row.description = last_insert[k].description

\* two keys are in the store, and one of them was inserted again with a
\* title other than that of the insert before
C7_Witness ==
    /\ Cardinality(final_videos) >= 2
    /\ \E k \in DOMAIN last_insert :
          /\ last_insert[k].previous # <<>>
          /\ last_insert[k].previous # last_insert[k].title

\* C8: once a row is marked published, no later step changes its published
\* flag, its published_id or its published_at.
C8_PublishedOnce ==
    [][\A row \in final_videos :
          row.youtube_uploaded =>
              \E new \in final_videos' :
                 /\ new.video_key = row.video_key
                 /\ new.youtube_uploaded = row.youtube_uploaded
                 /\ new.youtube_video_id = row.youtube_video_id
                 /\ new.youtube_uploaded_at = row.youtube_uploaded_at]_vars

PastFetch == req.route = "publish" /\ req.pc \notin {"idle", "fetch_processed"}

\* C9: a publish request fetches the processed object first, fetches the
\* unprocessed object exactly when the processed fetch raised, and submits
\* the processed asset to the platform whenever the processed fetch succeeded.
C9_ProcessedFirstFallbackOnlyOnError ==
    req.route = "publish" =>
        /\ Len(req.fetched) <= 2
        /\ req.fetched # <<>> => req.fetched[1].processed
        /\ Len(req.fetched) = 2 =>
               ~req.fetched[1].ok /\ ~req.fetched[2].processed
        /\ (PastFetch /\ req.pc # "fetch_original") =>
               (Len(req.fetched) = 2 <=> ~req.fetched[1].ok)
        /\ (req.executed /\ req.fetched[1].ok) =>
               req.stream = <<req.user_id, "/", req.task_id, "_processed", ".mp4">>

\* a v1 publish request submitted the processed asset
C9_Witness ==
    /\ Done
    /\ req.route = "publish"
    /\ req.variant = "v1"
    /\ req.executed
    /\ req.fetched = <<[processed |-> TRUE, ok |-> TRUE]>>
    /\ req.stream \in objects

BothFetchesFailed ==
    /\ Done
    /\ req.route = "publish"
    /\ Len(req.fetched) = 2
    /\ ~req.fetched[1].ok
    /\ ~req.fetched[2].ok

\* C10 as stated: when both fetches of a publish request fail, the response
\* is a not-found-class error.
C10_BothFetchesFailNotFound ==
    BothFetchesFailed => req.response.code = 404

\* C10 as amended: when both fetches of a publish request fail, the response
\* is the generic server error (500) of the handler's except block, or of
\* the framework when the failure log raises; it is never a not-found error.
C10_BothFetchesFailServerError ==
    BothFetchesFailed => req.response.code = 500

\* both fetches failed and the except block answered
C10_Witness ==
    /\ BothFetchesFailed
    /\ req.response = PubError("YouTube upload failed")
    /\ Len(logs) = 1

\* C11: in both variants, the operation-log row of a publish request whose
\* platform call succeeded has status success exactly when the platform
\* returned an identifier and status unknown exactly when it returned none;
\* a row with status fail is appended only when an error occurred.
C11_PublishLogStatus ==
    (Done /\ req.route = "publish") =>
        \A i \in LogIndexes :
            /\ logs[i].status = "FAIL" => req.exc # None
            /\ (req.executed /\ logs[i].status # "FAIL") =>
                  /\ logs[i].status = "SUCCESS" <=> req.youtube_id # None
                  /\ logs[i].status = "UNKNOWN" <=> req.youtube_id = None

\* filename with its last piece dropped
StripSuffix(filename) == SubSeq(filename, 1, Len(filename) - 1)

\* the names the listing is to return: of each key of the user that ends in
\* .mp4 the file name without that ending, in descending order
ExpectedVideos(store, user_id) ==
    LET mine == {k \in store : /\ StartsWith(k, Prefix(user_id))
                               /\ EndsWithMp4(Filename(k))}
        RECURSIVE Names(_)
        Names(contents) ==
            IF contents = <<>> THEN <<>>
            ELSE <<StripSuffix(Filename(Head(contents)))>>
                 \o Names(Tail(contents))
    IN  SortedReverse(Names(Contents(mine)))

\* C12: for every user_id and every content of the object store, a listing
\* the store answered returns exactly the names of the keys under user_id/
\* that end in .mp4, each with only that trailing .mp4 removed, in
\* descending order; no key of another user and no thumbnail key
\* contributes a name.
C12_ListExactlyTheVideos ==
    (Done /\ req.route = "list" /\ req.exc = None) =>
        req.response.body.videos = ExpectedVideos(objects, req.user_id)

\* the job is the one of a generation by user_id that resolved to task_id
JobOf(job, user_id, task_id) ==
    job.output_key = VideoKey(user_id, task_id, TRUE)

\* video, thumbnail and metadata row of the generation a job belongs to
StoredFor(job) ==
    \E u \in Users, t \in VideoKeys :
        /\ JobOf(job, u, t)
        /\ VideoKey(u, t, FALSE) \in objects
        /\ ThumbKey(u, t) \in objects
        /\ RowsOf(final_videos, t) # {}

\* C13: in both variants the generation steps run in the order video
\* upload, thumbnail upload, metadata upsert, queue push, success log, each
\* only after the one before it succeeded; so for every job on the queue
\* the objects user_id/task_id.mp4 and user_id/task_id.jpg are stored and a
\* metadata row with video_key = task_id exists, and no request pushes more
\* than one job.
C13_PipelineOrder ==
    /\ \A i \in 1..Len(queue) : StoredFor(queue[i])
    /\ Len(req.pushed) <= 1
    /\ req.route = "generate" =>
          /\ ThumbKey(req.user_id, req.task_id) \in req.put =>
                VideoKey(req.user_id, req.task_id, FALSE) \in req.put
          /\ req.upserted =>
                req.put = {VideoKey(req.user_id, req.task_id, FALSE),
                           ThumbKey(req.user_id, req.task_id)}
          /\ req.pushed # <<>> => req.upserted
          /\ \A i \in LogIndexes :
                logs[i].status = "SUCCESS" => req.pushed # <<>>

\* a generation has answered after pushing its job, which is on the queue
\* ahead of the job of an earlier request, and has logged its success
C13_Witness ==
    /\ Succeeded
    /\ req.route = "generate"
    /\ Len(req.pushed) = 1
    /\ Len(queue) >= 2
    /\ queue[1] = req.pushed[1]
    /\ \E i \in LogIndexes : logs[i].status = "SUCCESS"

\* C14: the user_id of a metadata row never changes after the row is first
\* inserted: the upsert of a generation request that resolves to an
\* existing video_key, also one by another user, changes title and
\* description only and leaves user_id, published, published_id,
\* selected_at and published_at as they were; a publish request creates no
\* row and changes no user_id, title or description.
C14_UserIdNeverChanges ==
    [][/\ \A row \in final_videos :
             \E new \in final_videos' :
                /\ new.video_key = row.video_key
                /\ new.user_id = row.user_id
                /\ new.selected_at = row.selected_at
                /\ req.route = "generate" =>
                      /\ new.youtube_uploaded = row.youtube_uploaded
                      /\ new.youtube_video_id = row.youtube_video_id
                      /\ new.youtube_uploaded_at = row.youtube_uploaded_at
                /\ req.route = "publish" =>
                      /\ new.title = row.title
                      /\ new.description = row.description
       /\ req.route = "publish" =>
             Cardinality(final_videos') = Cardinality(final_videos)]_vars

\* the upsert of a generation request has written the title of its prompt,
\* other than the title before, to a published row that another user
\* inserted at an earlier time
C14_Witness ==
    /\ req.route = "generate"
    /\ req.upserted
    /\ \E row \in RowsOf(final_videos, req.task_id) :
          /\ row.user_id # req.user_id
          /\ row.selected_at < served
          /\ row.youtube_uploaded
          /\ row.title = Title(req.prompt)
          /\ last_insert[req.task_id].previous # row.title

====
